---- MODULE Spec2Model ----
(***************************************************************************)
(* The two REST slices of back-lab: the User router (src/routes/users.js,  *)
(* src/models/User.js) and the Analisis router (src/unnamed/part_000,      *)
(* src/models/Analisis.js).  A collection is a function from _id to the    *)
(* stored document; a string the code inspects character by character      *)
(* (name, email) is a sequence of one-character strings.                   *)
(***************************************************************************)
EXTENDS Integers, Sequences, FiniteSets, TLC

VARIABLES users, analisis, nextId, now, last, inflight, slice

vars == <<users, analisis, nextId, now, last, inflight, slice>>

\* Bounds of the exploration.
MaxDocs == 2
MaxTime == 1
MaxInflight == 2

\* Limits set by the User schema.
MaxNameLen == 50
MinAge == 0
MaxAge == 120

(***************************************************************************)
(* Characters and the String setters of the schemas                        *)
(***************************************************************************)
UpperCase == <<"A","B","C","D","E","F","G","H","I","J","K","L","M",
               "N","O","P","Q","R","S","T","U","V","W","X","Y","Z">>
LowerCase == <<"a","b","c","d","e","f","g","h","i","j","k","l","m",
               "n","o","p","q","r","s","t","u","v","w","x","y","z">>
Digits == {"0","1","2","3","4","5","6","7","8","9"}

Range(s) == {s[i] : i \in DOMAIN s}

UpperChars == Range(UpperCase)

\* \w of the email pattern
WordChars == Range(UpperCase) \cup Range(LowerCase) \cup Digits \cup {"_"}

WordChar(c) == c \in WordChars

LowerChar(c) ==
  IF c \in UpperChars
  THEN LowerCase[CHOOSE i \in DOMAIN UpperCase : UpperCase[i] = c]
  ELSE c

\* lowercase: true
ToLower(s) == [i \in DOMAIN s |-> LowerChar(s[i])]

RECURSIVE TrimStart(_)
TrimStart(s) == IF s # <<>> /\ Head(s) = " " THEN TrimStart(Tail(s)) ELSE s

RECURSIVE TrimEnd(_)
TrimEnd(s) ==
  IF s # <<>> /\ s[Len(s)] = " " THEN TrimEnd(SubSeq(s, 1, Len(s) - 1)) ELSE s

\* trim: true
Trim(s) == TrimEnd(TrimStart(s))

(***************************************************************************)
(* The email pattern /^\w+([.-]?\w+)*@\w+([.-]?\w+)*(\.\w{2,3})+$/         *)
(***************************************************************************)
\* \w+([.-]?\w+)* : word characters with single "." or "-" between them
WordRun(s) ==
  /\ s # <<>>
  /\ WordChar(s[1]) /\ WordChar(s[Len(s)])
  /\ \A i \in DOMAIN s : WordChar(s[i]) \/ s[i] \in {".", "-"}
  /\ \A i \in 1..(Len(s) - 1) : ~(s[i] \in {".", "-"} /\ s[i + 1] \in {".", "-"})

\* (\.\w{2,3})+ : one or more groups of a dot and two or three word characters
RECURSIVE TldGroups(_)
TldGroups(s) ==
  /\ Len(s) >= 3
  /\ s[1] = "."
  /\ \E k \in 2..3 :
       /\ Len(s) >= k + 1
       /\ \A i \in 2..(k + 1) : WordChar(s[i])
       /\ \/ Len(s) = k + 1
          \/ TldGroups(SubSeq(s, k + 2, Len(s)))

EmailMatch(s) ==
  \E at \in DOMAIN s :
    /\ s[at] = "@"
    /\ WordRun(SubSeq(s, 1, at - 1))
    /\ \E cut \in (at + 1)..(Len(s) - 1) :
         /\ WordRun(SubSeq(s, at + 1, cut))
         /\ TldGroups(SubSeq(s, cut + 1, Len(s)))

(***************************************************************************)
(* Records as partial functions: a field the body or the document does not *)
(* carry is outside the DOMAIN.                                            *)
(***************************************************************************)
Has(r, f) == f \in DOMAIN r

\* $set: the fields of set replace or add to those of doc
Merge(doc, set) ==
  [f \in DOMAIN doc \cup DOMAIN set |-> IF f \in DOMAIN set THEN set[f] ELSE doc[f]]

Without(doc, fields) == [f \in DOMAIN doc \ fields |-> doc[f]]

Only(doc, fields) == [f \in DOMAIN doc \cap fields |-> doc[f]]

Empty == [f \in {} |-> 0]

RECURSIVE SeqOfSet(_)
SeqOfSet(S) ==
  IF S = {} THEN <<>>
  ELSE LET m == CHOOSE x \in S : \A y \in S : x <= y
       IN <<m>> \o SeqOfSet(S \ {m})

(***************************************************************************)
(* models/User.js                                                          *)
(***************************************************************************)
UserPaths == {"name", "email", "age", "isActive", "createdAt", "updatedAt"}

\* Casting a body against the schema: paths outside the schema are dropped,
\* name is trimmed, email is lowercased and trimmed.
UserCast(body) ==
  [f \in DOMAIN body \cap UserPaths |->
     CASE f = "name"  -> Trim(body[f])
       [] f = "email" -> Trim(ToLower(body[f]))
       [] OTHER       -> body[f]]

\* new User(body): the cast body over the schema defaults
UserNew(body, t) ==
  Merge([isActive |-> TRUE, createdAt |-> t, updatedAt |-> t, __v |-> 0],
        UserCast(body))

UserNameErrors(doc) ==
  IF ~Has(doc, "name") \/ doc["name"] = <<>>
  THEN {"El nombre es obligatorio"}
  ELSE IF Len(doc["name"]) > MaxNameLen
       THEN {"El nombre no puede tener más de 50 caracteres"}
       ELSE {}

UserEmailErrors(doc) ==
  IF ~Has(doc, "email") \/ doc["email"] = <<>>
  THEN {"El email es obligatorio"}
  ELSE IF ~EmailMatch(doc["email"])
       THEN {"Por favor ingresa un email válido"}
       ELSE {}

UserAgeErrors(doc) ==
  IF ~Has(doc, "age") THEN {}
  ELSE IF doc["age"] < MinAge THEN {"La edad no puede ser negativa"}
  ELSE IF doc["age"] > MaxAge THEN {"La edad no puede ser mayor a 120"}
  ELSE {}

\* The messages of the schema validators of the given paths, one per
\* violated path.
UserValidate(doc, paths) ==
  (IF "name" \in paths THEN UserNameErrors(doc) ELSE {})
  \cup (IF "email" \in paths THEN UserEmailErrors(doc) ELSE {})
  \cup (IF "age" \in paths THEN UserAgeErrors(doc) ELSE {})

\* userSchema.pre('save')
UserPreSave(doc, t) == [doc EXCEPT !["updatedAt"] = t]

\* userSchema.methods.getPublicProfile; an undefined age is left out of the JSON
getPublicProfile(doc) ==
  Merge([id |-> doc["_id"]],
        Only(doc, {"name", "email", "age", "isActive", "createdAt"}))

(***************************************************************************)
(* models/Analisis.js                                                      *)
(***************************************************************************)
AnalisisPaths ==
  {"numero_analisis", "fecha_analisis", "tipo_analisis", "laboratorio",
   "tecnico_responsable", "observaciones", "estado", "createdAt", "updatedAt"}

Estados == {"pendiente", "en_proceso", "completado", "cancelado"}

AnalisisRequired ==
  {"numero_analisis", "tipo_analisis", "laboratorio", "tecnico_responsable"}

AnalisisCast(body) == [f \in DOMAIN body \cap AnalisisPaths |-> body[f]]

\* new Analisis(body)
AnalisisNew(body, t) ==
  Merge([fecha_analisis |-> t, observaciones |-> "", estado |-> "pendiente",
         createdAt |-> t, updatedAt |-> t, __v |-> 0],
        AnalisisCast(body))

\* the default messages of the validators (their backquotes left out)
RequiredMessage(path) ==
  CASE path = "numero_analisis"     -> "Path numero_analisis is required."
    [] path = "tipo_analisis"       -> "Path tipo_analisis is required."
    [] path = "laboratorio"         -> "Path laboratorio is required."
    [] path = "tecnico_responsable" -> "Path tecnico_responsable is required."

\* Mutant: estado has no enum validator.
AnalisisValidate_NoEnum(doc, paths) ==
  {RequiredMessage(p) : p \in {q \in AnalisisRequired \cap paths :
                                 ~Has(doc, q) \/ doc[q] = ""}}

AnalisisValidate(doc, paths) ==
  {RequiredMessage(p) : p \in {q \in AnalisisRequired \cap paths :
                                 ~Has(doc, q) \/ doc[q] = ""}}
  \cup (IF "estado" \in paths /\ Has(doc, "estado") /\ doc["estado"] \notin Estados
        THEN {"Not a valid enum value for path estado."}
        ELSE {})

\* analisisSchema.pre('save')
AnalisisPreSave(doc, t) == [doc EXCEPT !["updatedAt"] = t]

(***************************************************************************)
(* The errors a handler can catch                                          *)
(***************************************************************************)
NoError == [name |-> "none", code |-> 0, message |-> "", errors |-> {}]

ValidationError(messages) ==
  [name |-> "ValidationError", code |-> 0, message |-> "Validation failed",
   errors |-> messages]

DuplicateKeyError ==
  [name |-> "MongoServerError", code |-> 11000,
   message |-> "E11000 duplicate key error", errors |-> {}]

CastError ==
  [name |-> "CastError", code |-> 0, message |-> "Cast to ObjectId failed",
   errors |-> {}]

(***************************************************************************)
(* The store.  _id values are numbered in insertion order; MalformedId     *)
(* stands for a path parameter that is no ObjectId.                        *)
(***************************************************************************)
MalformedId == 0

IsObjectId(id) == id >= 1

NoDocs == [i \in {} |-> Empty]

KeyOf(res) == IF res = "users" THEN "email" ELSE "numero_analisis"

\* Mutant: the unique index covers the active documents only.
DupKey_ActiveOnly(coll, key, doc, self) ==
  /\ Has(doc, key)
  /\ \E i \in DOMAIN coll \ {self} :
       /\ Has(coll[i], key) /\ coll[i][key] = doc[key]
       /\ Has(coll[i], "isActive") => coll[i]["isActive"]

\* the unique index: another document already holds doc's key
DupKey(coll, key, doc, self) ==
  /\ Has(doc, key)
  /\ \E i \in DOMAIN coll \ {self} : Has(coll[i], key) /\ coll[i][key] = doc[key]

Outcome(err, coll, found, doc, docs) ==
  [error |-> err, coll |-> coll, found |-> found, doc |-> doc, docs |-> docs]

\* Mutant: the collection has no unique index.
insertOne_NoUniqueIndex(coll, key, doc, id) ==
  LET stored == Merge(doc, [_id |-> id])
  IN [error |-> NoError, coll |-> (id :> stored) @@ coll, found |-> TRUE,
      doc |-> stored, docs |-> <<>>]

insertOne(coll, key, doc, id) ==
  IF DupKey(coll, key, doc, id)
  THEN Outcome(DuplicateKeyError, coll, FALSE, Empty, <<>>)
  ELSE LET stored == Merge(doc, [_id |-> id])
       IN Outcome(NoError, (id :> stored) @@ coll, TRUE, stored, <<>>)

\* Mutant: the update replaces the document instead of setting fields.
findOneAndUpdate_Replace(coll, key, id, set) ==
  IF id \notin DOMAIN coll
  THEN [error |-> NoError, coll |-> coll, found |-> FALSE, doc |-> Empty, docs |-> <<>>]
  ELSE LET updated == Merge(set, [_id |-> id])
       IN [error |-> NoError, coll |-> [coll EXCEPT ![id] = updated], found |-> TRUE,
           doc |-> updated, docs |-> <<>>]

\* findOneAndUpdate({_id: id}, {$set: set}, {new: true})
findOneAndUpdate(coll, key, id, set) ==
  IF id \notin DOMAIN coll
  THEN Outcome(NoError, coll, FALSE, Empty, <<>>)
  ELSE LET updated == Merge(coll[id], set)
       IN IF DupKey(coll, key, updated, id)
          THEN Outcome(DuplicateKeyError, coll, FALSE, Empty, <<>>)
          ELSE Outcome(NoError, [coll EXCEPT ![id] = updated], TRUE, updated, <<>>)

findOneAndDelete(coll, id) ==
  IF id \notin DOMAIN coll
  THEN Outcome(NoError, coll, FALSE, Empty, <<>>)
  ELSE Outcome(NoError, [i \in DOMAIN coll \ {id} |-> coll[i]], TRUE, coll[id], <<>>)

findOne(coll, id) ==
  IF id \notin DOMAIN coll
  THEN Outcome(NoError, coll, FALSE, Empty, <<>>)
  ELSE Outcome(NoError, coll, TRUE, coll[id], <<>>)

\* find(filter): the documents whose fields equal those of the filter
find(coll, filter) ==
  LET hits == {i \in DOMAIN coll :
                 \A f \in DOMAIN filter : Has(coll[i], f) /\ coll[i][f] = filter[f]}
      order == SeqOfSet(hits)
  IN Outcome(NoError, coll, TRUE, Empty, [k \in DOMAIN order |-> coll[order[k]]])

\* .select('-__v')
Select(doc) == Without(doc, {"__v"})

(***************************************************************************)
(* A handler is the code up to its one store call (Call: the call it       *)
(* issues, or the error thrown before any call) and the code after it      *)
(* (Reply: the try block's response, or the catch block's).                *)
(***************************************************************************)
Throw(err) == [op |-> "throw", error |-> err]

Response(status, json) == [status |-> status, json |-> json]

ServerError(text, err) ==
  Response(500, [success |-> FALSE, error |-> text, details |-> err.message])

NotFound(text) == Response(404, [success |-> FALSE, error |-> text])

ValidationFailed(err) ==
  Response(400, [success |-> FALSE, error |-> "Errores de validación",
                 details |-> err.errors])

Conflict(text) == Response(400, [success |-> FALSE, error |-> text])

(***************************************************************************)
(* routes/users.js                                                         *)
(***************************************************************************)
\* Mutant: the list query has no isActive filter.
UsersListCall_NoFilter == [op |-> "find", filter |-> Empty]

UsersListCall == [op |-> "find", filter |-> [isActive |-> TRUE]]

UsersListReply(out) ==
  IF out.error.name # "none"
  THEN ServerError("Error al obtener usuarios", out.error)
  ELSE Response(200, [success |-> TRUE, count |-> Len(out.docs),
                      data |-> [k \in DOMAIN out.docs |-> Select(out.docs[k])]])

UsersGetCall(id) ==
  IF ~IsObjectId(id) THEN Throw(CastError) ELSE [op |-> "findOne", id |-> id]

UsersGetReply(out) ==
  IF out.error.name # "none"
  THEN ServerError("Error al obtener el usuario", out.error)
  ELSE IF ~out.found THEN NotFound("Usuario no encontrado")
  ELSE Response(200, [success |-> TRUE, data |-> Select(out.doc)])

\* new User(req.body) and user.save(): validation, the pre('save') hook, insert
UsersPostCall(body, t) ==
  LET user == UserNew(body, t)
      errs == UserValidate(user, {"name", "email", "age"})
  IN IF errs # {} THEN Throw(ValidationError(errs))
     ELSE [op |-> "insertOne", doc |-> UserPreSave(user, t)]

\* Mutant: the catch block has no branch for the duplicate key.
UsersPostReply_NoConflictBranch(out) ==
  IF out.error.name = "none"
  THEN Response(201, [success |-> TRUE, message |-> "Usuario creado exitosamente",
                      data |-> getPublicProfile(out.doc)])
  ELSE IF out.error.name = "ValidationError" THEN ValidationFailed(out.error)
  ELSE ServerError("Error al crear el usuario", out.error)

UsersPostReply(out) ==
  IF out.error.name = "none"
  THEN Response(201, [success |-> TRUE, message |-> "Usuario creado exitosamente",
                      data |-> getPublicProfile(out.doc)])
  ELSE IF out.error.code = 11000 THEN Conflict("El email ya está registrado")
  ELSE IF out.error.name = "ValidationError" THEN ValidationFailed(out.error)
  ELSE ServerError("Error al crear el usuario", out.error)

\* User.findByIdAndUpdate(id, body, {new: true, runValidators: true}): the id
\* is cast, the body is cast, the validators of the paths of the body run,
\* and the update is one findOneAndUpdate; no 'save' hook runs.
UsersPutCall(id, body) ==
  IF ~IsObjectId(id) THEN Throw(CastError)
  ELSE LET set == UserCast(body)
           errs == UserValidate(set, DOMAIN set)
       IN IF errs # {} THEN Throw(ValidationError(errs))
          ELSE [op |-> "findOneAndUpdate", id |-> id, set |-> set]

UsersPutReply(out) ==
  IF out.error.name = "none"
  THEN IF ~out.found THEN NotFound("Usuario no encontrado")
       ELSE Response(200, [success |-> TRUE,
                           message |-> "Usuario actualizado exitosamente",
                           data |-> Select(out.doc)])
  ELSE IF out.error.name = "ValidationError" THEN ValidationFailed(out.error)
  ELSE ServerError("Error al actualizar el usuario", out.error)

\* Mutant: the DELETE of a user removes the document.
UsersDeleteCall_Hard(id) ==
  IF ~IsObjectId(id) THEN Throw(CastError)
  ELSE [op |-> "findOneAndDelete", id |-> id]

\* User.findByIdAndUpdate(id, {isActive: false}, {new: true})
UsersDeleteCall(id) ==
  IF ~IsObjectId(id) THEN Throw(CastError)
  ELSE [op |-> "findOneAndUpdate", id |-> id, set |-> [isActive |-> FALSE]]

UsersDeleteReply(out) ==
  IF out.error.name # "none"
  THEN ServerError("Error al eliminar el usuario", out.error)
  ELSE IF ~out.found THEN NotFound("Usuario no encontrado")
  ELSE Response(200, [success |-> TRUE, message |-> "Usuario eliminado exitosamente"])

(***************************************************************************)
(* The Analisis router (unnamed/part_000)                                  *)
(***************************************************************************)
\* if (estado) filter.estado = estado; if (laboratorio) filter.laboratorio = ...
AnalisisListCall(query) ==
  [op |-> "find",
   filter |-> [f \in {g \in DOMAIN query \cap {"estado", "laboratorio"} : query[g] # ""}
                 |-> query[f]]]

AnalisisListReply(out) ==
  IF out.error.name # "none"
  THEN ServerError("Error al obtener análisis", out.error)
  ELSE Response(200, [success |-> TRUE, count |-> Len(out.docs),
                      data |-> [k \in DOMAIN out.docs |-> Select(out.docs[k])]])

AnalisisGetCall(id) ==
  IF ~IsObjectId(id) THEN Throw(CastError) ELSE [op |-> "findOne", id |-> id]

AnalisisGetReply(out) ==
  IF out.error.name # "none"
  THEN ServerError("Error al obtener el análisis", out.error)
  ELSE IF ~out.found THEN NotFound("Análisis no encontrado")
  ELSE Response(200, [success |-> TRUE, data |-> Select(out.doc)])

AnalisisPostCall(body, t) ==
  LET doc == AnalisisNew(body, t)
      errs == AnalisisValidate(doc, AnalisisPaths)
  IN IF errs # {} THEN Throw(ValidationError(errs))
     ELSE [op |-> "insertOne", doc |-> AnalisisPreSave(doc, t)]

AnalisisPostReply(out) ==
  IF out.error.name = "none"
  THEN Response(201, [success |-> TRUE, message |-> "Análisis creado exitosamente",
                      data |-> out.doc])
  ELSE IF out.error.code = 11000 THEN Conflict("El número de análisis ya existe")
  ELSE IF out.error.name = "ValidationError" THEN ValidationFailed(out.error)
  ELSE ServerError("Error al crear el análisis", out.error)

AnalisisPutCall(id, body) ==
  IF ~IsObjectId(id) THEN Throw(CastError)
  ELSE LET set == AnalisisCast(body)
           errs == AnalisisValidate(set, DOMAIN set)
       IN IF errs # {} THEN Throw(ValidationError(errs))
          ELSE [op |-> "findOneAndUpdate", id |-> id, set |-> set]

\* the catch block has one branch
AnalisisPutReply(out) ==
  IF out.error.name = "none"
  THEN IF ~out.found THEN NotFound("Análisis no encontrado")
       ELSE Response(200, [success |-> TRUE,
                           message |-> "Análisis actualizado exitosamente",
                           data |-> Select(out.doc)])
  ELSE ServerError("Error al actualizar el análisis", out.error)

AnalisisDeleteCall(id) ==
  IF ~IsObjectId(id) THEN Throw(CastError)
  ELSE [op |-> "findOneAndDelete", id |-> id]

AnalisisDeleteReply(out) ==
  IF out.error.name # "none"
  THEN ServerError("Error al eliminar el análisis", out.error)
  ELSE IF ~out.found THEN NotFound("Análisis no encontrado")
  ELSE Response(200, [success |-> TRUE, message |-> "Análisis eliminado exitosamente"])

(***************************************************************************)
(* Dispatch of a request [res, op, id, body, query] to its handler         *)
(***************************************************************************)
RouteCall(req, t) ==
  IF req.res = "users"
  THEN CASE req.op = "list"   -> UsersListCall
         [] req.op = "get"    -> UsersGetCall(req.id)
         [] req.op = "post"   -> UsersPostCall(req.body, t)
         [] req.op = "put"    -> UsersPutCall(req.id, req.body)
         [] req.op = "delete" -> UsersDeleteCall(req.id)
  ELSE CASE req.op = "list"   -> AnalisisListCall(req.query)
         [] req.op = "get"    -> AnalisisGetCall(req.id)
         [] req.op = "post"   -> AnalisisPostCall(req.body, t)
         [] req.op = "put"    -> AnalisisPutCall(req.id, req.body)
         [] req.op = "delete" -> AnalisisDeleteCall(req.id)

RouteReply(req, out) ==
  IF req.res = "users"
  THEN CASE req.op = "list"   -> UsersListReply(out)
         [] req.op = "get"    -> UsersGetReply(out)
         [] req.op = "post"   -> UsersPostReply(out)
         [] req.op = "put"    -> UsersPutReply(out)
         [] req.op = "delete" -> UsersDeleteReply(out)
  ELSE CASE req.op = "list"   -> AnalisisListReply(out)
         [] req.op = "get"    -> AnalisisGetReply(out)
         [] req.op = "post"   -> AnalisisPostReply(out)
         [] req.op = "put"    -> AnalisisPutReply(out)
         [] req.op = "delete" -> AnalisisDeleteReply(out)

\* the store call of a handler, run atomically by the store
Exec(call, coll, key, id) ==
  CASE call.op = "throw"            -> Outcome(call.error, coll, FALSE, Empty, <<>>)
    [] call.op = "find"             -> find(coll, call.filter)
    [] call.op = "findOne"          -> findOne(coll, call.id)
    [] call.op = "insertOne"        -> insertOne(coll, key, call.doc, id)
    [] call.op = "findOneAndUpdate" -> findOneAndUpdate(coll, key, call.id, call.set)
    [] call.op = "findOneAndDelete" -> findOneAndDelete(coll, call.id)

(***************************************************************************)
(* Request bodies and parameters the handlers are driven with              *)
(***************************************************************************)
Ana == <<"A","n","a">>
Eva == <<"E","v","a">>
EvaPadded == <<" ","E","v","a"," ">>
Blank == <<" "," ">>
LongName == [i \in 1..(MaxNameLen + 1) |-> "x"]
PaddedFullName == <<" ">> \o [i \in 1..MaxNameLen |-> "x"] \o <<" ">>

AnaMail == <<"a","n","a","@","x",".","c","o","m">>
AnaMailRaw == <<" ","A","N","A","@","X",".","c","o","m"," ">>
EvaMail == <<"e","v","a","@","x",".","c","o","m">>
EvaMailRaw == <<" ","E","v","a","@","x",".","c","o","m">>
BadMail == <<"a","n","a","@","x">>

UserPostBodies ==
  { [name |-> Ana, email |-> AnaMail, age |-> 30],
    [name |-> EvaPadded, email |-> AnaMailRaw],
    [name |-> Eva, email |-> EvaMail],
    [email |-> AnaMail],
    [name |-> Blank, email |-> EvaMail],
    [name |-> LongName, email |-> BadMail, age |-> MaxAge + 1],
    [name |-> Ana, email |-> EvaMail, age |-> MinAge - 1] }

UserPutBodies ==
  { [name |-> EvaPadded],
    [name |-> Ana, age |-> 30],
    [email |-> EvaMailRaw],
    [email |-> AnaMail],
    [isActive |-> TRUE],
    [isActive |-> FALSE],
    [name |-> PaddedFullName, age |-> MaxAge + 1],
    [name |-> LongName, email |-> BadMail],
    Empty }

AnalisisPostBodies ==
  { [numero_analisis |-> "A-001", tipo_analisis |-> "sangre",
     laboratorio |-> "Lab1", tecnico_responsable |-> "Luz"],
    [numero_analisis |-> "A-002", tipo_analisis |-> "sangre",
     laboratorio |-> "Lab2", tecnico_responsable |-> "Luz", estado |-> "completado"],
    [numero_analisis |-> "A-001", tipo_analisis |-> "sangre",
     laboratorio |-> "Lab2", tecnico_responsable |-> "Luz", estado |-> "en_proceso"],
    [numero_analisis |-> "A-001", tipo_analisis |-> "sangre", laboratorio |-> "Lab1"],
    [numero_analisis |-> "A-002", tipo_analisis |-> "sangre",
     laboratorio |-> "Lab2", tecnico_responsable |-> "Luz", estado |-> "cancelado"],
    [numero_analisis |-> "A-002", tipo_analisis |-> "sangre",
     laboratorio |-> "Lab2", tecnico_responsable |-> "Luz", estado |-> "pendiente"],
    [numero_analisis |-> "A-002", tipo_analisis |-> "sangre",
     laboratorio |-> "Lab1", tecnico_responsable |-> "Luz", estado |-> "archivado"],
    [estado |-> "archivado"] }

AnalisisPutBodies ==
  { [estado |-> e] : e \in Estados \cup {"archivado"} }
  \cup { [laboratorio |-> "Lab2"],
         [laboratorio |-> "Lab1", estado |-> "pendiente"],
         [numero_analisis |-> "A-001"],
         [numero_analisis |-> "A-002"],
         Empty }

AnalisisQueries ==
  { Empty,
    [estado |-> "completado"],
    [laboratorio |-> "Lab1", estado |-> "pendiente"],
    [estado |-> "", laboratorio |-> "Lab2"] }

\* path parameters: no ObjectId, or the _id of a document inserted or to be
Ids == {MalformedId} \cup 1..MaxDocs

Request(res, op, id, body, query) ==
  [res |-> res, op |-> op, id |-> id, body |-> body, query |-> query]

(***************************************************************************)
(* State                                                                   *)
(*   users, analisis  the two collections                                  *)
(*   nextId           the _id the next inserted document gets              *)
(*   now              Date.now()                                           *)
(*   last             the last request answered, with the error its        *)
(*                    handler caught and the response sent                 *)
(*   inflight         the store calls issued and not yet run               *)
(*   slice            the router the behaviour drives: the two routers     *)
(*                    share no state, so each is explored on its own       *)
(***************************************************************************)
NoRequest == Request("none", "none", 0, Empty, Empty)

Idle == [req |-> NoRequest, call |-> Throw(NoError)]

Init ==
  /\ users = NoDocs
  /\ analisis = NoDocs
  /\ nextId = 1
  /\ now = 0
  /\ last = [req |-> NoRequest, error |-> NoError, status |-> 0, json |-> Empty]
  /\ inflight = [s \in 1..MaxInflight |-> Idle]
  /\ slice \in {"users", "analisis"}

Coll(res) == IF res = "users" THEN users ELSE analisis

\* The store runs the call issued for req and the handler answers.
Complete(req, call) ==
  LET out == Exec(call, Coll(req.res), KeyOf(req.res), nextId)
      inserted == call.op = "insertOne" /\ out.error.name = "none"
  IN /\ inserted => nextId <= MaxDocs
     /\ IF req.res = "users"
        THEN users' = out.coll /\ UNCHANGED analisis
        ELSE analisis' = out.coll /\ UNCHANGED users
     /\ nextId' = IF inserted THEN nextId + 1 ELSE nextId
     /\ last' = [req |-> req, error |-> out.error] @@ RouteReply(req, out)

\* A request handled with no other request in between.
Serve(req) ==
  /\ Complete(req, RouteCall(req, now))
  /\ UNCHANGED <<now, inflight, slice>>

UsersList ==
  /\ slice = "users"
  /\ Serve(Request("users", "list", 0, Empty, Empty))

UsersGet ==
  /\ slice = "users"
  /\ \E id \in Ids : Serve(Request("users", "get", id, Empty, Empty))

UsersPost ==
  /\ slice = "users"
  /\ \E body \in UserPostBodies : Serve(Request("users", "post", 0, body, Empty))

UsersPut ==
  /\ slice = "users"
  /\ \E id \in Ids, body \in UserPutBodies :
       Serve(Request("users", "put", id, body, Empty))

UsersDelete ==
  /\ slice = "users"
  /\ \E id \in Ids : Serve(Request("users", "delete", id, Empty, Empty))

AnalisisList ==
  /\ slice = "analisis"
  /\ \E query \in AnalisisQueries : Serve(Request("analisis", "list", 0, Empty, query))

AnalisisGet ==
  /\ slice = "analisis"
  /\ \E id \in Ids : Serve(Request("analisis", "get", id, Empty, Empty))

AnalisisPost ==
  /\ slice = "analisis"
  /\ \E body \in AnalisisPostBodies :
       Serve(Request("analisis", "post", 0, body, Empty))

AnalisisPut ==
  /\ slice = "analisis"
  /\ \E id \in Ids, body \in AnalisisPutBodies :
       Serve(Request("analisis", "put", id, body, Empty))

AnalisisDelete ==
  /\ slice = "analisis"
  /\ \E id \in Ids : Serve(Request("analisis", "delete", id, Empty, Empty))

\* time passes between requests
Tick ==
  /\ now < MaxTime
  /\ now' = now + 1
  /\ UNCHANGED <<users, analisis, nextId, last, inflight, slice>>

\* Requests one after the other, within one reading of the clock.
Next ==
  \/ UsersList \/ UsersGet \/ UsersPost \/ UsersPut \/ UsersDelete
  \/ AnalisisList \/ AnalisisGet \/ AnalisisPost \/ AnalisisPut \/ AnalisisDelete

Spec == Init /\ [][Next]_vars

\* The same requests, with time passing between them.
TimedNext == Next \/ Tick

SpecTimed == Init /\ [][TimedNext]_vars

(***************************************************************************)
(* Concurrent requests: a handler issues its store call (Begin) and the    *)
(* store runs the calls one at a time, in any order (Finish).  A handler   *)
(* that throws before its store call answers at once.                      *)
(***************************************************************************)
ConcUserPostBodies ==
  { [name |-> Ana, email |-> AnaMail, age |-> 30],
    [name |-> Eva, email |-> EvaMailRaw],
    [email |-> AnaMail] }

ConcAnalisisPostBodies ==
  { [numero_analisis |-> "A-001", tipo_analisis |-> "sangre",
     laboratorio |-> "Lab1", tecnico_responsable |-> "Luz"],
    [numero_analisis |-> "A-002", tipo_analisis |-> "sangre",
     laboratorio |-> "Lab2", tecnico_responsable |-> "Luz"],
    [numero_analisis |-> "A-001", tipo_analisis |-> "sangre", laboratorio |-> "Lab1"] }

\* the handler runs up to its await
Begin(req) ==
  LET call == RouteCall(req, now)
  IN /\ IF call.op = "throw"
        THEN Complete(req, call) /\ UNCHANGED inflight
        ELSE /\ \E s \in DOMAIN inflight :
                  /\ inflight[s] = Idle
                  /\ \A r \in 1..(s - 1) : inflight[r] # Idle
                  /\ inflight' = [inflight EXCEPT ![s] = [req |-> req, call |-> call]]
             /\ UNCHANGED <<users, analisis, nextId, last>>
     /\ UNCHANGED <<now, slice>>

UsersPostBegin ==
  /\ slice = "users"
  /\ \E body \in ConcUserPostBodies : Begin(Request("users", "post", 0, body, Empty))

UsersPutBegin ==
  /\ slice = "users"
  /\ \E id \in 1..MaxDocs : Begin(Request("users", "put", id, [email |-> AnaMail], Empty))

UsersDeleteBegin ==
  /\ slice = "users"
  /\ \E id \in 1..MaxDocs : Begin(Request("users", "delete", id, Empty, Empty))

AnalisisPostBegin ==
  /\ slice = "analisis"
  /\ \E body \in ConcAnalisisPostBodies :
       Begin(Request("analisis", "post", 0, body, Empty))

AnalisisPutBegin ==
  /\ slice = "analisis"
  /\ \E id \in 1..MaxDocs :
       Begin(Request("analisis", "put", id, [numero_analisis |-> "A-001"], Empty))

AnalisisDeleteBegin ==
  /\ slice = "analisis"
  /\ \E id \in 1..MaxDocs : Begin(Request("analisis", "delete", id, Empty, Empty))

\* the store runs a pending call and the handler resumes
Finish ==
  \E s \in DOMAIN inflight :
    /\ inflight[s] # Idle
    /\ Complete(inflight[s].req, inflight[s].call)
    /\ inflight' = [inflight EXCEPT ![s] = Idle]
    /\ UNCHANGED <<now, slice>>

ConcNext ==
  \/ UsersPostBegin \/ UsersPutBegin \/ UsersDeleteBegin
  \/ AnalisisPostBegin \/ AnalisisPutBegin \/ AnalisisDeleteBegin
  \/ Finish

SpecConc == Init /\ [][ConcNext]_vars

(***************************************************************************)
(* Vocabulary of the properties                                            *)
(***************************************************************************)
Resources == {"users", "analisis"}

CollNext(res) == IF res = "users" THEN users' ELSE analisis'

\* this step answers a request op of router res
Answered(res, op) == last' # last /\ last'.req.res = res /\ last'.req.op = op

StoreUnchanged == users' = users /\ analisis' = analisis

ConflictText(res) ==
  IF res = "users" THEN "El email ya está registrado"
  ELSE "El número de análisis ya existe"

CastBody(req) ==
  IF req.res = "users" THEN UserCast(req.body) ELSE AnalisisCast(req.body)

\* a stored document already holds the unique key the request carries
KeyTaken(req) ==
  LET key == KeyOf(req.res)
      cast == CastBody(req)
  IN /\ Has(cast, key)
     /\ \E i \in DOMAIN Coll(req.res) : Coll(req.res)[i][key] = cast[key]

\* the handler of the request reaches its store call
PassesValidation(req) == RouteCall(req, now).op # "throw"

UniqueKeys(coll, key) ==
  \A i, j \in DOMAIN coll : i # j => coll[i][key] # coll[j][key]

Elems(seq) == {seq[k] : k \in DOMAIN seq}

(***************************************************************************)
(* C1                                                                      *)
(***************************************************************************)
\* C1 as stated: every create whose unique key (after the setters) is held
\* by a stored record answers 400 with the conflict message and nothing
\* else, and leaves both collections as they were.
C1_DuplicateCreateIsConflict ==
  [][\A res \in Resources :
       (Answered(res, "post") /\ KeyTaken(last'.req))
       => /\ last'.status = 400
          /\ last'.json = [success |-> FALSE, error |-> ConflictText(res)]
          /\ StoreUnchanged]_vars

\* C1 amended: a create whose unique key is held by a stored record answers
\* 400 and leaves the store as it was; the answer is the conflict message
\* when the body passes schema validation, and the validation errors
\* otherwise.
C1_ValidDuplicateCreateIsConflict ==
  [][\A res \in Resources :
       (Answered(res, "post") /\ KeyTaken(last'.req))
       => /\ last'.status = 400
          /\ StoreUnchanged
          /\ IF PassesValidation(last'.req)
             THEN last'.json = [success |-> FALSE, error |-> ConflictText(res)]
             ELSE /\ last'.json.error = "Errores de validación"
                  /\ last'.json.details # {}]_vars

\* a create with the email " ANA@X.com " was refused because ana@x.com is stored
C1_Witness ==
  /\ last.req.res = "users" /\ last.req.op = "post"
  /\ last.req.body["email"] = AnaMailRaw
  /\ last.status = 400
  /\ last.json.error = ConflictText("users")
  /\ \E i \in DOMAIN users : users[i]["email"] = AnaMail

(***************************************************************************)
(* C2                                                                      *)
(***************************************************************************)
\* C2: under any interleaving of the store calls of concurrent creates,
\* updates and deletes, no two stored analyses share numero_analisis and no
\* two stored users share email; a create answers 201 only when no stored
\* record held its key, and then stores exactly one record with that key,
\* and a create that does not answer 201 stores nothing.
C2_UniqueUnderConcurrency ==
  /\ [](UniqueKeys(users, "email") /\ UniqueKeys(analisis, "numero_analisis"))
  /\ [][\A res \in Resources :
          Answered(res, "post")
          => IF last'.status = 201
             THEN /\ ~KeyTaken(last'.req)
                  /\ DOMAIN CollNext(res) = DOMAIN Coll(res) \cup {nextId}
                  /\ nextId \notin DOMAIN Coll(res)
                  /\ \A i \in DOMAIN Coll(res) : CollNext(res)[i] = Coll(res)[i]
                  /\ CollNext(res)[nextId][KeyOf(res)] = CastBody(last'.req)[KeyOf(res)]
             ELSE StoreUnchanged]_vars

\* one of two concurrent creates of ana@x.com got 201, the other is still
\* in flight
C2_Witness ==
  /\ last.req.res = "users" /\ last.req.op = "post" /\ last.status = 201
  /\ last.json.data["email"] = AnaMail
  /\ \E s \in DOMAIN inflight :
       /\ inflight[s].call.op = "insertOne"
       /\ inflight[s].call.doc["email"] = AnaMail

(***************************************************************************)
(* C3                                                                      *)
(***************************************************************************)
\* C3: every successful write (POST, PUT with a body that sets a field, and
\* the DELETE of a user) leaves the written record's updatedAt equal to the
\* time of the write.
C3_WriteRefreshesUpdatedAt ==
  [][\A res \in Resources :
       /\ (Answered(res, "post") /\ last'.status = 201)
          => CollNext(res)[nextId]["updatedAt"] = now
       /\ (Answered(res, "put") /\ last'.status = 200 /\ last'.req.body # Empty)
          => CollNext(res)[last'.req.id]["updatedAt"] = now
       /\ (Answered("users", "delete") /\ last'.status = 200)
          => users'[last'.req.id]["updatedAt"] = now]_vars

(***************************************************************************)
(* C4                                                                      *)
(***************************************************************************)
\* C4: whenever the store refuses a write for its unique index (a create or
\* an update), the answer is 400 with the message naming the field.
C4_UniqueViolationIs400 ==
  last.error.code = 11000
  => /\ last.status = 400
     /\ last.json.error = ConflictText(last.req.res)

(***************************************************************************)
(* C5                                                                      *)
(***************************************************************************)
\* C5: whenever a create or an update violates a schema constraint, the
\* answer is 400 'Errores de validación' with one message per violated
\* field, and the store is unchanged.
C5_ValidationIs400 ==
  [][(last' # last /\ last'.error.name = "ValidationError")
     => /\ last'.status = 400
        /\ last'.json.error = "Errores de validación"
        /\ last'.json.details = last'.error.errors
        /\ StoreUnchanged]_vars

(***************************************************************************)
(* C6                                                                      *)
(***************************************************************************)
\* C6: the answer to a user list is exactly the stored users whose isActive
\* is true, each once, and its count is the number of records returned.
C6_ListIsActiveUsers ==
  (last.req.res = "users" /\ last.req.op = "list")
  => /\ last.status = 200
     /\ Elems(last.json.data)
          = {Select(users[i]) : i \in {j \in DOMAIN users : users[j]["isActive"]}}
     /\ last.json.count = Len(last.json.data)
     /\ Cardinality(Elems(last.json.data)) = Len(last.json.data)

\* a list that returned a user and left an inactive one out
C6_Witness ==
  /\ last.req.res = "users" /\ last.req.op = "list"
  /\ last.json.count = 1
  /\ \E i \in DOMAIN users : ~users[i]["isActive"]

(***************************************************************************)
(* C7                                                                      *)
(***************************************************************************)
\* an analysis that was stored under id and has been deleted
Deleted(id) == IsObjectId(id) /\ id < nextId /\ id \notin DOMAIN analisis

\* a successful DELETE of a user keeps the record, isActive false, every
\* other field and every other record as before
C7_UserDeleteKeeps ==
  (Answered("users", "delete") /\ last'.status = 200)
  => /\ last'.req.id \in DOMAIN users
     /\ users' = [users EXCEPT ![last'.req.id] = Merge(@, [isActive |-> FALSE])]
     /\ analisis' = analisis

\* a list never shows an inactive user; get-by-id of a stored user, active
\* or not, answers 200 with the record
C7_UserReads ==
  /\ Answered("users", "list")
     => \A k \in DOMAIN last'.json.data : last'.json.data[k]["isActive"]
  /\ (Answered("users", "get") /\ last'.req.id \in DOMAIN users)
     => /\ last'.status = 200
        /\ last'.json.data = Select(users[last'.req.id])

\* a successful DELETE of an analysis removes the record and nothing else,
\* and the id is never stored again
C7_AnalisisDeleteRemoves ==
  /\ (Answered("analisis", "delete") /\ last'.status = 200)
     => /\ last'.req.id \in DOMAIN analisis
        /\ analisis' = [i \in DOMAIN analisis \ {last'.req.id} |-> analisis[i]]
        /\ users' = users
  /\ \A id \in Ids : Deleted(id) => id \notin DOMAIN analisis'

\* C7 as stated: after the DELETE of a user every later list omits it (it
\* stays inactive) and get-by-id answers 200; after the DELETE of an
\* analysis every later get-by-id, update and delete of the id answers 404.
C7_DeletePolicyAsStated ==
  [][/\ C7_UserDeleteKeeps
     /\ C7_UserReads
     /\ \A id \in DOMAIN users :
          ~users[id]["isActive"] => (id \in DOMAIN users' /\ ~users'[id]["isActive"])
     /\ C7_AnalisisDeleteRemoves
     /\ \A op \in {"get", "put", "delete"} :
          (Answered("analisis", op) /\ Deleted(last'.req.id))
          => (last'.status = 404 /\ StoreUnchanged)]_vars

\* C7 amended: a deleted user stays stored and inactive, out of every list,
\* until a PUT with isActive true on its id succeeds; on the id of a deleted
\* analysis, get-by-id and delete answer 404, and update answers 404 when
\* its body passes validation and 500 when it does not.
C7_DeletePolicy ==
  [][/\ C7_UserDeleteKeeps
     /\ C7_UserReads
     /\ \A id \in DOMAIN users :
          (/\ ~users[id]["isActive"]
           /\ ~(/\ Answered("users", "put") /\ last'.status = 200
                /\ last'.req.id = id
                /\ Has(last'.req.body, "isActive") /\ last'.req.body["isActive"]))
          => (id \in DOMAIN users' /\ ~users'[id]["isActive"])
     /\ C7_AnalisisDeleteRemoves
     /\ \A op \in {"get", "put", "delete"} :
          (Answered("analisis", op) /\ Deleted(last'.req.id))
          => /\ StoreUnchanged
             /\ last'.status = IF op = "put" /\ ~PassesValidation(last'.req)
                               THEN 500 ELSE 404]_vars

\* an update with a valid body on the id of a deleted analysis answered 404
C7_Witness ==
  /\ last.req.res = "analisis" /\ last.req.op = "put"
  /\ Deleted(last.req.id)
  /\ last.req.body = [laboratorio |-> "Lab2"]
  /\ last.status = 404

(***************************************************************************)
(* C8                                                                      *)
(***************************************************************************)
\* a successful PUT sets the fields of its body (as the schema casts them)
\* and leaves every other field of the record, every other record and the
\* other collection as they were
C8_PutFrame ==
  \A res \in Resources :
    (Answered(res, "put") /\ last'.status = 200)
    => LET id == last'.req.id
           set == CastBody(last'.req)
       IN /\ id \in DOMAIN Coll(res)
          /\ DOMAIN CollNext(res) = DOMAIN Coll(res)
          /\ \A j \in DOMAIN Coll(res) \ {id} : CollNext(res)[j] = Coll(res)[j]
          /\ DOMAIN CollNext(res)[id] = DOMAIN Coll(res)[id] \cup DOMAIN last'.req.body
          /\ \A f \in DOMAIN Coll(res)[id] \ DOMAIN last'.req.body :
               CollNext(res)[id][f] = Coll(res)[id][f]
          /\ \A f \in DOMAIN set : CollNext(res)[id][f] = set[f]
          /\ \A other \in Resources \ {res} : CollNext(other) = Coll(other)

\* the body of the request passes the update validators
BodyValid(req) == RouteCall([req EXCEPT !.id = 1], now).op # "throw"

\* C8 as stated: the frame of a successful PUT, and a PUT on an id with no
\* matching record answers 404 and changes nothing.
C8_PartialUpdateAsStated ==
  [][/\ C8_PutFrame
     /\ \A res \in Resources :
          (Answered(res, "put") /\ last'.req.id \notin DOMAIN Coll(res))
          => (last'.status = 404 /\ StoreUnchanged)]_vars

\* C8 amended: the frame of a successful PUT; a PUT on an id with no
\* matching record changes nothing and answers 404 when the id is a
\* well-formed ObjectId and the body passes validation, 500 when the id is
\* malformed, and otherwise the validation failure (400 for users, 500 for
\* analyses).
C8_PartialUpdate ==
  [][/\ C8_PutFrame
     /\ \A res \in Resources :
          (Answered(res, "put") /\ last'.req.id \notin DOMAIN Coll(res))
          => /\ StoreUnchanged
             /\ last'.status =
                  IF ~IsObjectId(last'.req.id) THEN 500
                  ELSE IF BodyValid(last'.req) THEN 404
                  ELSE IF res = "users" THEN 400 ELSE 500]_vars

\* a PUT of the name alone renamed Ana, 30, to Eva and kept the age
C8_Witness ==
  /\ last.req.res = "users" /\ last.req.op = "put"
  /\ last.req.body = [name |-> EvaPadded]
  /\ last.status = 200
  /\ last.req.id \in DOMAIN users
  /\ users[last.req.id]["name"] = Eva
  /\ Has(users[last.req.id], "age") /\ users[last.req.id]["age"] = 30
  /\ users[last.req.id]["email"] = AnaMail

(***************************************************************************)
(* C9                                                                      *)
(***************************************************************************)
C9_EstadoStep ==
  /\ (/\ Answered("analisis", "post")
      /\ AnalisisRequired \subseteq DOMAIN last'.req.body
      /\ Has(last'.req.body, "estado") => last'.req.body["estado"] \in Estados
      /\ ~KeyTaken(last'.req))
     => last'.status = 201
  /\ (Answered("analisis", "post") /\ last'.status = 201)
     => analisis'[nextId]["estado"] =
          IF Has(last'.req.body, "estado") THEN last'.req.body["estado"] ELSE "pendiente"
  /\ \A op \in {"post", "put"} :
       (/\ Answered("analisis", op)
        /\ Has(last'.req.body, "estado") /\ last'.req.body["estado"] \notin Estados)
       => (last'.status \notin {200, 201} /\ StoreUnchanged)
  /\ (/\ Answered("analisis", "put")
      /\ last'.req.id \in DOMAIN analisis
      /\ DOMAIN last'.req.body = {"estado"} /\ last'.req.body["estado"] \in Estados)
     => /\ last'.status = 200
        /\ analisis'[last'.req.id]["estado"] = last'.req.body["estado"]

\* C9: every stored analysis has estado among the four values, pendiente
\* when the create omitted it; a create with its required fields, a free
\* numero_analisis and any of the four values is accepted; a create or
\* update with another estado is refused and changes nothing; an update of
\* estado to one of the four values succeeds whatever the record's estado
\* was.
C9_EstadoEnum ==
  /\ [](\A i \in DOMAIN analisis : analisis[i]["estado"] \in Estados)
  /\ [][C9_EstadoStep]_vars

\* a PUT moved a Lab1 record to cancelado: a record is in Lab1 by a create
\* that omits estado or by a PUT that sets pendiente with it
C9_Witness ==
  /\ last.req.res = "analisis" /\ last.req.op = "put"
  /\ last.req.body = [estado |-> "cancelado"]
  /\ last.status = 200
  /\ analisis[last.req.id]["laboratorio"] = "Lab1"
  /\ analisis[last.req.id]["estado"] = "cancelado"

(***************************************************************************)
(* C10                                                                     *)
(***************************************************************************)
\* the email of the request is that of a stored, inactive user
HeldByInactive(req) ==
  LET cast == UserCast(req.body)
  IN /\ Has(cast, "email")
     /\ \E i \in DOMAIN users : ~users[i]["isActive"] /\ users[i]["email"] = cast["email"]

C10_SoftDeletedKeepsId ==
  /\ (/\ Answered("users", "delete")
      /\ last'.req.id \in DOMAIN users /\ ~users[last'.req.id]["isActive"])
     => (last'.status = 200 /\ last'.json.success /\ StoreUnchanged)
  /\ (/\ Answered("users", "put")
      /\ last'.req.id \in DOMAIN users /\ ~users[last'.req.id]["isActive"]
      /\ last'.req.body = [isActive |-> TRUE])
     => (last'.status = 200 /\ users'[last'.req.id]["isActive"])
  /\ Answered("users", "list")
     => Elems(last'.json.data)
          = {Select(users[i]) : i \in {j \in DOMAIN users : users[j]["isActive"]}}

\* C10 as stated: a create with the email of a soft-deleted user answers the
\* conflict; a repeated DELETE answers 200; a PUT with isActive true brings
\* the user back into the lists.
C10_SoftDeletedAsStated ==
  [][/\ C10_SoftDeletedKeepsId
     /\ (Answered("users", "post") /\ HeldByInactive(last'.req))
        => /\ last'.status = 400
           /\ last'.json = [success |-> FALSE, error |-> ConflictText("users")]
           /\ StoreUnchanged]_vars

\* C10 amended: a create whose body passes validation and carries the email
\* of a soft-deleted user answers the conflict (a body that fails validation
\* answers the validation errors); the rest as stated.
C10_SoftDeleted ==
  [][/\ C10_SoftDeletedKeepsId
     /\ (Answered("users", "post") /\ HeldByInactive(last'.req))
        => /\ last'.status = 400
           /\ StoreUnchanged
           /\ IF PassesValidation(last'.req)
              THEN last'.json = [success |-> FALSE, error |-> ConflictText("users")]
              ELSE last'.json.error = "Errores de validación"]_vars

\* a create was refused for the email of a user that is in no list
C10_Witness ==
  /\ last.req.res = "users" /\ last.req.op = "post"
  /\ last.status = 400
  /\ last.json.error = ConflictText("users")
  /\ \E i \in DOMAIN users :
       /\ ~users[i]["isActive"]
       /\ users[i]["email"] = UserCast(last.req.body)["email"]
====
